---- MODULE Spec2Model ----
(***************************************************************************)
(* Model of the proxy authentication gate of cow (auth.go).                *)
(*                                                                         *)
(* Representation of strings.  A string that the code splits on a          *)
(* separator is the sequence of its separator-free fields: "a:b" is        *)
(* <<"a","b">> and "" is <<"">> (strings.Split of "" yields one empty      *)
(* field).  A hexadecimal string is the sequence of its characters.  An    *)
(* MD5 hex digest is the tuple <<"md5", input>> (a collision-free hash);   *)
(* the empty string in a digest-typed field is <<>>.                       *)
(***************************************************************************)
EXTENDS Integers, Sequences, FiniteSets, TLC

VARIABLES
    required,       \* auth.required
    user,           \* auth.user: user name -> [passwd, ha1, port]
    allowedClient,  \* auth.allowedClient: sequence of [ip, mask]
    timeout,        \* auth.authed.timeout, in seconds
    authed,         \* auth.authed: client ip -> time of its last add
    now,            \* time.Now(), in clock ticks
    pc,             \* position of every connection handler in Authenticate
    ip,             \* client ip of the connection the handler serves
    lport,          \* local port of the connection, once it has been read
    req,            \* the request, once it has been read
    verr,           \* result of checkProxyAuthorization in this call
    err,            \* value returned by Authenticate
    touched,        \* what this call has consulted or written so far
    verified,       \* history: client ip -> the user name of its last
                    \* successful credential verification
    cfg,            \* the configuration the process was started with
    issued,         \* history: the nonces written in 407 challenges
    boot            \* startup: its phase and the last operation applied

vars == <<required, user, allowedClient, timeout, authed, now, pc, ip, lport,
          req, verr, err, touched, verified, cfg, issued, boot>>

(***************************************************************************)
(* Bounds of the model.                                                    *)
(***************************************************************************)
MaxTicks == 2         \* how many times the clock advances in a behaviour
StartTime == 5000     \* Unix time at startup, in seconds
TicksPerSecond == 2   \* resolution of the clock: now counts half seconds

(***************************************************************************)
(* Program constants.                                                      *)
(***************************************************************************)
authRealm == "cow proxy"
Minute == 60
Hour == 3600
MaxPort == 65535

errNil == "nil"
errAuthRequired == "errAuthRequired"
errMalformedHeader == "auth: malformed ProxyAuthorization header"
errBase64 == "auth: illegal base64 data"
errMalformedBasic == "auth: malformed basic auth user:passwd"
errEmptyList == "auth: empty authorization list"
errNonce == "auth: nonce"
errQop == "auth: qop wrong"
errNoResponse == "auth: no request-digest response"
errUnsupported == "auth: method unsupported, must use digest"
errSendAuth == "send auth response error"

\* every error of checkProxyAuthorization other than errAuthRequired
BadRequestErrors ==
    {errMalformedHeader, errBase64, errMalformedBasic, errEmptyList, errNonce,
     errQop, errNoResponse, errUnsupported}

(***************************************************************************)
(* Library functions the code calls.                                       *)
(***************************************************************************)
md5sum(s) == <<"md5", s>>

Pow2(n) == IF n <= 0 THEN 1 ELSE 2 ^ n

Clamp8(n) == IF n < 0 THEN 0 ELSE IF n > 8 THEN 8 ELSE n

\* the 4 bytes of an IPv4 mask with nbit leading ones
NewNbitIPv4Mask(nbit) == [i \in 1..4 |-> 256 - Pow2(8 - Clamp8(nbit - 8 * (i - 1)))]

\* net.IP.Mask: bytewise and; every mask byte is 256 - 2^j
IPMask(addr, mask) == [i \in 1..4 |-> addr[i] - (addr[i] % (256 - mask[i]))]

\* net.ParseIP on the dotted strings the model uses; <<>> is nil
ParseIPTable ==
    [s \in {"10.0.0.0", "10.1.2.3", "11.0.0.0", "192.168.1.5", "192.168.1.6"} |->
        CASE s = "10.0.0.0" -> <<10, 0, 0, 0>>
          [] s = "10.1.2.3" -> <<10, 1, 2, 3>>
          [] s = "11.0.0.0" -> <<11, 0, 0, 0>>
          [] s = "192.168.1.5" -> <<192, 168, 1, 5>>
          [] s = "192.168.1.6" -> <<192, 168, 1, 6>>]

ParseIP(s) == IF s \in DOMAIN ParseIPTable THEN ParseIPTable[s] ELSE <<>>

\* strconv.Atoi on the decimal strings the model uses
AtoiTable ==
    [s \in {"-1", "0", "1", "8", "24", "32", "33", "3128", "8080", "65535", "65536",
             "70000"} |->
        CASE s = "-1" -> 0 - 1
          [] s = "0" -> 0
          [] s = "1" -> 1
          [] s = "8" -> 8
          [] s = "24" -> 24
          [] s = "32" -> 32
          [] s = "33" -> 33
          [] s = "3128" -> 3128
          [] s = "8080" -> 8080
          [] s = "65535" -> 65535
          [] s = "65536" -> 65536
          [] s = "70000" -> 70000]

Atoi(s) == IF s \in DOMAIN AtoiTable THEN [err |-> FALSE, val |-> AtoiTable[s]]
           ELSE [err |-> TRUE, val |-> 0]

HexDigits == <<"0", "1", "2", "3", "4", "5", "6", "7", "8", "9",
               "a", "b", "c", "d", "e", "f">>

UpperHex == [c \in {"A", "B", "C", "D", "E", "F"} |->
                CASE c = "A" -> 10 [] c = "B" -> 11 [] c = "C" -> 12
                  [] c = "D" -> 13 [] c = "E" -> 14 [] c = "F" -> 15]

\* value of one hexadecimal character, -1 when it is none
HexVal(c) ==
    IF \E i \in 1..16 : HexDigits[i] = c
    THEN (CHOOSE i \in 1..16 : HexDigits[i] = c) - 1
    ELSE IF c \in DOMAIN UpperHex THEN UpperHex[c] ELSE -1

RECURSIVE ParseUint(_, _)
\* strconv.ParseUint(s, 16, 64) on the digits left, acc the value so far
ParseUint(s, acc) ==
    IF s = <<>> THEN [err |-> FALSE, val |-> acc]
    ELSE IF HexVal(Head(s)) < 0 THEN [err |-> TRUE, val |-> 0]
    ELSE ParseUint(Tail(s), 16 * acc + HexVal(Head(s)))

\* strconv.ParseInt(s, 16, 64): optional sign, then at least one digit
ParseInt16(s) ==
    IF s = <<>> THEN [err |-> TRUE, val |-> 0]
    ELSE IF Head(s) \in {"+", "-"}
    THEN IF Tail(s) = <<>> THEN [err |-> TRUE, val |-> 0]
         ELSE LET u == ParseUint(Tail(s), 0)
              IN  IF u.err THEN u
                  ELSE [err |-> FALSE, val |-> IF Head(s) = "-" THEN 0 - u.val ELSE u.val]
    ELSE ParseUint(s, 0)

RECURSIVE FormatHex(_)
\* fmt "%x" of a non-negative integer
FormatHex(n) ==
    IF n < 16 THEN <<HexDigits[n + 1]>>
    ELSE Append(FormatHex(n \div 16), HexDigits[(n % 16) + 1])

\* strings.ToLower(strings.TrimSpace(s)) on the scheme tokens the model uses
LowerTrim(s) ==
    CASE s \in {"Digest", "digest", "DIGEST"} -> "digest"
      [] s \in {"Basic", "basic", "BASIC"} -> "basic"
      [] s = "NTLM" -> "ntlm"
      [] OTHER -> s

\* base64.StdEncoding.DecodeString: a blob is [b64 |-> TRUE, text |-> fields]
\* when it is the encoding of text, [b64 |-> FALSE] otherwise
DecodeString(blob) ==
    IF blob.b64 THEN [err |-> FALSE, val |-> blob.text] ELSE [err |-> TRUE, val |-> <<>>]

EmptyMap == [x \in {} |-> ""]

RECURSIVE parseKeyValueList(_)
\* the key=value list of a Digest header as a map; a later pair overwrites
parseKeyValueList(pairs) ==
    IF pairs = <<>> THEN EmptyMap
    ELSE LET n == Len(pairs)
             front == parseKeyValueList(SubSeq(pairs, 1, n - 1))
             k == pairs[n][1]
         IN  [x \in (DOMAIN front) \cup {k} |-> IF x = k THEN pairs[n][2] ELSE front[x]]

\* kv[k] of a Go map[string]string: the zero value when k is absent
MapGet(kv, k) ==
    IF k \in DOMAIN kv THEN kv[k]
    ELSE IF k \in {"nonce", "response"} THEN <<>> ELSE ""

(***************************************************************************)
(* Startup: the credential store and the allowlist.                        *)
(***************************************************************************)
EmptyString == <<"">>

\* mutant of parseUserPasswd: the range of the port is not tested
parseUserPasswdAnyPort(userPasswd) ==
    LET arr == userPasswd
        n == Len(arr)
        fail == [err |-> TRUE, user |-> "", au |-> [passwd |-> "", ha1 |-> <<>>, port |-> 0]]
    IN  IF n = 1 \/ n > 3 THEN fail
        ELSE IF arr[1] = "" \/ arr[2] = "" THEN fail
        ELSE IF n = 3 /\ arr[3] # ""
        THEN LET p == Atoi(arr[3])
             IN  IF p.err THEN fail
                 ELSE [err |-> FALSE, user |-> arr[1],
                       au |-> [passwd |-> arr[2], ha1 |-> <<>>, port |-> p.val % (MaxPort + 1)]]
        ELSE [err |-> FALSE, user |-> arr[1],
              au |-> [passwd |-> arr[2], ha1 |-> <<>>, port |-> 0]]

\* parseUserPasswd: userPasswd is the sequence of the colon-separated fields
parseUserPasswd(userPasswd) ==
    LET arr == userPasswd
        n == Len(arr)
        fail == [err |-> TRUE, user |-> "", au |-> [passwd |-> "", ha1 |-> <<>>, port |-> 0]]
    IN  IF n = 1 \/ n > 3 THEN fail
        ELSE IF arr[1] = "" \/ arr[2] = "" THEN fail
        ELSE IF n = 3 /\ arr[3] # ""
        THEN LET p == Atoi(arr[3])
             IN  IF p.err \/ p.val <= 0 \/ p.val > MaxPort THEN fail
                 ELSE [err |-> FALSE, user |-> arr[1],
                       au |-> [passwd |-> arr[2], ha1 |-> <<>>, port |-> p.val]]
        ELSE [err |-> FALSE, user |-> arr[1],
              au |-> [passwd |-> arr[2], ha1 |-> <<>>, port |-> 0]]

\* mutant of addUserPasswd: the port of the record is dropped
addUserPasswdNoPort(users, val) ==
    IF val = EmptyString THEN [fatal |-> FALSE, user |-> users]
    ELSE LET r == parseUserPasswd(val)
         IN  IF r.err THEN [fatal |-> TRUE, user |-> users]
             ELSE IF r.user \in DOMAIN users THEN [fatal |-> TRUE, user |-> users]
             ELSE [fatal |-> FALSE,
                   user |-> [u \in (DOMAIN users) \cup {r.user} |->
                                IF u = r.user THEN [r.au EXCEPT !.port = 0] ELSE users[u]]]

\* addUserPasswd on the store users; fatal when the process exits (Fatal, or
\* the nil dereference of au.port on a spec that does not parse)
addUserPasswd(users, val) ==
    IF val = EmptyString THEN [fatal |-> FALSE, user |-> users]
    ELSE LET r == parseUserPasswd(val)
         IN  IF r.err THEN [fatal |-> TRUE, user |-> users]
             ELSE IF r.user \in DOMAIN users THEN [fatal |-> TRUE, user |-> users]
             ELSE [fatal |-> FALSE,
                   user |-> [u \in (DOMAIN users) \cup {r.user} |->
                                IF u = r.user THEN r.au ELSE users[u]]]

\* the credential files of the model: file name -> lines
FileLines(file) ==
    CASE file = "passwd" -> << <<"bob", "hunter2", "3128">>, EmptyString >>
      [] file = "twice" -> << <<"bob", "hunter2", "3128">>, <<"bob", "secret", "8080">> >>
      [] file = "more" -> << <<"alice", "hunter2">>, <<"bob", "hunter2", "">> >>
      [] file = "bad" -> << <<"bob", "hunter2">>, <<"carol">>, <<"alice", "hunter2">> >>
      [] OTHER -> <<>>

RECURSIVE addLines(_, _)
\* the scanner loop of loadUserPasswdFile
addLines(acc, lines) ==
    IF lines = <<>> \/ acc.fatal THEN acc
    ELSE addLines(addUserPasswd(acc.user, Head(lines)), Tail(lines))

loadUserPasswdFile(users, file) ==
    IF file = "" THEN [fatal |-> FALSE, user |-> users]
    ELSE addLines([fatal |-> FALSE, user |-> users], FileLines(file))

\* one entry of the allowlist: s is the sequence of its slash-separated fields
parseAllowedEntry(s) ==
    LET ipAndMask == s
        addr == ParseIP(ipAndMask[1])
        nbit == IF Len(ipAndMask) = 2 THEN Atoi(ipAndMask[2]) ELSE [err |-> FALSE, val |-> 32]
        mask == NewNbitIPv4Mask(nbit.val)
    IN  IF Len(ipAndMask) > 2 \/ addr = <<>> \/ nbit.err \/ nbit.val > 32
        THEN [fatal |-> TRUE, na |-> [ip |-> <<>>, mask |-> <<>>]]
        ELSE [fatal |-> FALSE, na |-> [ip |-> IPMask(addr, mask), mask |-> mask]]

\* parseAllowedClient: val is the sequence of the comma-separated entries
parseAllowedClient(val) ==
    IF val = <<EmptyString>> THEN [fatal |-> FALSE, allowedClient |-> <<>>]
    ELSE [fatal |-> \E i \in 1..Len(val) : parseAllowedEntry(val[i]).fatal,
          allowedClient |-> [i \in 1..Len(val) |-> parseAllowedEntry(val[i]).na]]

\* mutant of initAuthRequired: the allowlist comparison inverted
initAuthRequiredInverted(config) ==
    \/ config.UserPasswd # EmptyString
    \/ config.UserPasswdFile # ""
    \/ config.AllowedClient = <<EmptyString>>

\* the test of initAuth that sets auth.required
initAuthRequired(config) ==
    \/ config.UserPasswd # EmptyString
    \/ config.UserPasswdFile # ""
    \/ config.AllowedClient # <<EmptyString>>

\* initAuth: the auth state after startup, fatal when startup exits
initAuth(config) ==
    IF ~initAuthRequired(config)
    THEN [fatal |-> FALSE, required |-> FALSE, user |-> EmptyMap,
          allowedClient |-> <<>>, timeout |-> 0]
    ELSE LET u1 == addUserPasswd(EmptyMap, config.UserPasswd)
             u2 == IF u1.fatal THEN u1 ELSE loadUserPasswdFile(u1.user, config.UserPasswdFile)
             ac == parseAllowedClient(config.AllowedClient)
         IN  [fatal |-> u1.fatal \/ u2.fatal \/ ac.fatal, required |-> TRUE,
              user |-> u2.user, allowedClient |-> ac.allowedClient,
              timeout |-> config.AuthTimeout * Hour]

(***************************************************************************)
(* Credential verification.                                                *)
(***************************************************************************)
\* mutant of storeHA1: the write of the digest key lifts the port restriction
storeHA1ClearsPort(users, u, v) == [users EXCEPT ![u].ha1 = v, ![u].port = 0]

\* a digest key read while its write is in progress: the string header
\* holds the new length and not yet the data pointer
Torn == <<"torn">>

\* the assignment to au.ha1 of line 58, v the value the field holds after it
storeHA1(users, u, v) == [users EXCEPT ![u].ha1 = v]

\* authUser.initHA1
initHA1(au, username) ==
    IF au.ha1 = <<>>
    THEN [au EXCEPT !.ha1 = md5sum(<<username, authRealm, au.passwd>>)]
    ELSE au

\* mutant of authIP: only the first rule of the allowlist is tested
authIPFirstRule(clientIP, allowed) ==
    Len(allowed) > 0 /\ IPMask(ParseIP(clientIP), allowed[1].mask) = allowed[1].ip

\* authIP: sequential search of the allowlist (clientIP is always an address)
authIP(clientIP, allowed) ==
    \E i \in 1..Len(allowed) : IPMask(ParseIP(clientIP), allowed[i].mask) = allowed[i].ip

\* mutant of genNonce: the clock value is not reduced to seconds
genNonceTicks(t) == FormatHex(t)

\* genNonce at clock value t
genNonce(t) == FormatHex(t \div TicksPerSecond)

calcRequestDigest(kv, ha1, method) ==
    md5sum(<<ha1, MapGet(kv, "nonce"), MapGet(kv, "nc"), MapGet(kv, "cnonce"), "auth",
             md5sum(<<method, MapGet(kv, "uri")>>)>>)

\* mutant of authPort: the test for "any port" left out
authPortNoZero(localPort, au) ==
    IF localPort % (MaxPort + 1) # au.port THEN errAuthRequired ELSE errNil

authPort(localPort, au) ==
    IF au.port = 0 THEN errNil
    ELSE IF localPort % (MaxPort + 1) # au.port THEN errAuthRequired
    ELSE errNil

\* strings.SplitN(header, " ", 2) on a header given as its tokens
SplitN2(h) ==
    IF \E i \in 1..Len(h) : h[i].k = "sp"
    THEN LET i == CHOOSE j \in 1..Len(h) :
                     h[j].k = "sp" /\ \A l \in 1..(j - 1) : h[l].k # "sp"
         IN  <<SubSeq(h, 1, i - 1), SubSeq(h, i + 1, Len(h))>>
    ELSE <<h>>

\* the scheme token as authMethod
authMethodOf(tokens) ==
    IF Len(tokens) = 1 /\ tokens[1].k = "word" THEN LowerTrim(tokens[1].s) ELSE ""

\* the blob of a Basic header as base64 input
basicBlob(tokens) ==
    IF tokens = <<>> THEN [b64 |-> TRUE, text |-> EmptyString]
    ELSE IF Len(tokens) = 1 /\ tokens[1].k = "b64" THEN [b64 |-> TRUE, text |-> tokens[1].text]
    ELSE [b64 |-> FALSE, text |-> <<>>]

\* the blob of a Digest header as the pairs its key=value list holds
digestPairs(tokens) ==
    IF Len(tokens) = 1 /\ tokens[1].k = "list" THEN tokens[1].pairs ELSE <<>>

authBasic(localPort, users, userPasswd) ==
    LET d == DecodeString(basicBlob(userPasswd))
        arr == d.val
    IN  IF d.err THEN errBase64
        ELSE IF Len(arr) # 2 THEN errMalformedBasic
        ELSE IF arr[1] \notin DOMAIN users THEN errAuthRequired
        ELSE IF users[arr[1]].passwd # arr[2] THEN errAuthRequired
        ELSE authPort(localPort, users[arr[1]])

\* mutant of authDigestHead: the freshness test of the nonce left out
authDigestHeadNoFreshness(localPort, users, t, keyVal) ==
    LET authHeader == parseKeyValueList(digestPairs(keyVal))
        nonce == ParseInt16(MapGet(authHeader, "nonce"))
        username == MapGet(authHeader, "username")
    IN  IF DOMAIN authHeader = {} THEN errEmptyList
        ELSE IF nonce.err THEN errNonce
        ELSE IF username \notin DOMAIN users THEN errAuthRequired
        ELSE IF authPort(localPort, users[username]) # errNil
        THEN authPort(localPort, users[username])
        ELSE IF MapGet(authHeader, "qop") # "auth" THEN errQop
        ELSE IF "response" \notin DOMAIN authHeader THEN errNoResponse
        ELSE errNil

\* authDigest up to the use of the digest key (lines 286-316): errNil when
\* the request goes on to the digest comparison
authDigestHead(localPort, users, t, keyVal) ==
    LET authHeader == parseKeyValueList(digestPairs(keyVal))
        nonce == ParseInt16(MapGet(authHeader, "nonce"))
        username == MapGet(authHeader, "username")
    IN  IF DOMAIN authHeader = {} THEN errEmptyList
        ELSE IF nonce.err THEN errNonce
        ELSE IF t - nonce.val * TicksPerSecond > Minute * TicksPerSecond THEN errAuthRequired
        ELSE IF username \notin DOMAIN users THEN errAuthRequired
        ELSE IF authPort(localPort, users[username]) # errNil
        THEN authPort(localPort, users[username])
        ELSE IF MapGet(authHeader, "qop") # "auth" THEN errQop
        ELSE IF "response" \notin DOMAIN authHeader THEN errNoResponse
        ELSE errNil

\* mutant of authDigestTail: the response is not compared
authDigestTailAcceptsAny(ha1, method, keyVal) == errNil

\* authDigest from the digest computation on (lines 319-324), ha1 the key read
authDigestTail(ha1, method, keyVal) ==
    LET authHeader == parseKeyValueList(digestPairs(keyVal))
    IN  IF MapGet(authHeader, "response") # calcRequestDigest(authHeader, ha1, method)
        THEN errAuthRequired
        ELSE errNil

digestUser(keyVal) == MapGet(parseKeyValueList(digestPairs(keyVal)), "username")

\* authDigest run without interruption: the error and the store it leaves
authDigest(localPort, users, t, r, keyVal) ==
    LET head == authDigestHead(localPort, users, t, keyVal)
        u == digestUser(keyVal)
        users2 == [users EXCEPT ![u] = initHA1(users[u], u)]
    IN  IF head # errNil THEN [err |-> head, user |-> users]
        ELSE [err |-> authDigestTail(users2[u].ha1, r.Method, keyVal), user |-> users2]

\* checkProxyAuthorization run without interruption
checkProxyAuthorization(localPort, users, t, r) ==
    LET arr == SplitN2(r.ProxyAuthorization)
        authMethod == authMethodOf(arr[1])
    IN  IF Len(arr) # 2 THEN [err |-> errMalformedHeader, user |-> users]
        ELSE IF authMethod = "digest" THEN authDigest(localPort, users, t, r, arr[2])
        ELSE IF authMethod = "basic"
        THEN [err |-> authBasic(localPort, users, arr[2]), user |-> users]
        ELSE [err |-> errUnsupported, user |-> users]

(***************************************************************************)
(* The authenticated-client cache (TimeoutSet): a time-windowed set.       *)
(***************************************************************************)
\* TimeoutSet.has at clock value t
TimeoutSetHas(set, window, t, key) ==
    key \in DOMAIN set /\ ~(t - set[key] > window * TicksPerSecond)

\* TimeoutSet.add at clock value t
TimeoutSetAdd(set, t, key) ==
    [k \in (DOMAIN set) \cup {key} |-> IF k = key THEN t ELSE set[k]]

(***************************************************************************)
(* Inputs: configurations, connections and requests.                       *)
(***************************************************************************)
Procs == {"h1", "h2"}           \* the connection handlers
ClientIPs == {"10.1.2.3", "11.0.0.0"}
LocalPorts == {8080, 3128}
Methods == {"GET", "CONNECT"}
URIs == {"/", "/x"}
Names == {"alice", "bob"}
Passwds == {"secret", "hunter2"}
NC == "00000001"
CNonce == "abc123"

AllConfigs ==
    [UserPasswd : {EmptyString, <<"alice", "secret">>, <<"alice", "secret", "8080">>},
     UserPasswdFile : {"", "passwd"},
     AllowedClient : {<<EmptyString>>, << <<"10.0.0.0", "8">>, <<"192.168.1.5">> >>},
     AuthTimeout : {1}]

\* the configurations of Spec: nothing configured, users only, users and an
\* allowlist, an allowlist only
Configs ==
    {c \in AllConfigs :
        \/ c.UserPasswd = EmptyString /\ c.UserPasswdFile = ""
        \/ c.UserPasswd = <<"alice", "secret">> /\ c.UserPasswdFile = ""
              /\ c.AllowedClient = <<EmptyString>>
        \/ c.UserPasswd = <<"alice", "secret", "8080">> /\ c.UserPasswdFile = "passwd"
              /\ c.AllowedClient # <<EmptyString>>}

\* header tokens
W(s) == [k |-> "word", s |-> s]
SP == [k |-> "sp"]
B64(text) == [k |-> "b64", text |-> text]
RAW == [k |-> "raw"]
LIST(pairs) == [k |-> "list", pairs |-> pairs]

Opt(key, o) == IF o.has THEN << <<key, o.v>> >> ELSE <<>>
Absent(zero) == [has |-> FALSE, v |-> zero]
Present(S) == {[has |-> TRUE, v |-> x] : x \in S}

\* the response an RFC 2617 client computes for these credentials
ClientResponse(name, passwd, nonce, method, uri) ==
    <<"md5", << <<"md5", <<name, authRealm, passwd>> >>, nonce, NC, CNonce, "auth",
                <<"md5", <<method, uri>> >> >> >>

\* nonces a client may send: a stale one, the startup second, a later one,
\* a negative one and one that is no number
NonceStrings ==
    {FormatHex(StartTime - Minute - 1), FormatHex(StartTime),
     FormatHex(StartTime + 2 * Hour), <<"-", "1">>, <<"z", "z">>}

ResponseSels ==
    {[kind |-> k, pw |-> "", m |-> "", uri |-> ""] : k \in {"absent", "garbage"}}
    \cup [kind : {"computed"}, pw : Passwds, m : Methods, uri : URIs]

ResponseOpt(sel, name, nonce) ==
    CASE sel.kind = "absent" -> Absent(<<>>)
      [] sel.kind = "garbage" -> [has |-> TRUE, v |-> <<"garbage">>]
      [] OTHER -> [has |-> TRUE, v |-> ClientResponse(name, sel.pw, nonce, sel.m, sel.uri)]

DigestList(nonce, name, qop, sel, uri) ==
    LIST(Opt("username", name) \o Opt("nonce", nonce) \o Opt("uri", [has |-> TRUE, v |-> uri])
         \o Opt("nc", [has |-> TRUE, v |-> NC]) \o Opt("cnonce", [has |-> TRUE, v |-> CNonce])
         \o Opt("qop", qop) \o Opt("response", ResponseOpt(sel, name.v, nonce.v)))

DigestHeaders ==
    {<<W("Digest"), SP, DigestList(n, u, q, sel, uri)>> :
        n \in {Absent(<<>>)} \cup Present(NonceStrings),
        u \in {Absent("")} \cup Present(Names),
        q \in {Absent("")} \cup Present({"auth", "auth-int"}),
        sel \in ResponseSels,
        uri \in URIs}

BasicHeaders ==
    {<<W("Basic"), SP, B64(<<n, p>>)>> : n \in Names, p \in Passwds}
    \cup {<<W("BASIC"), SP, B64(<<"alice", "secret">>)>>,
          <<W("Basic"), SP, B64(<<"alice">>)>>,
          <<W("Basic"), SP, B64(<<"alice", "secret", "x">>)>>,
          <<W("Basic"), SP, RAW>>,
          <<W("Basic"), SP>>}

OtherHeaders ==
    {<<>>, <<W("Basic")>>, <<SP, W("Basic"), SP, B64(<<"alice", "secret">>)>>,
     <<W("NTLM"), SP, RAW>>, <<W("Digest"), SP>>, <<W("Digest"), SP, LIST(<<>>)>>}

Headers == OtherHeaders \cup BasicHeaders \cup DigestHeaders

Requests == [ProxyAuthorization : Headers, Method : Methods, URL : URIs]

NoRequest == [ProxyAuthorization |-> <<>>, Method |-> "", URL |-> ""]

\* the clock advances by one tick or by an hour, at most MaxTicks times
TickSteps == {1, Hour * TicksPerSecond}
StartTick == StartTime * TicksPerSecond
Elapsed(t) ==
    LET e == t - StartTick
    IN  (e \div (Hour * TicksPerSecond)) + (e % (Hour * TicksPerSecond))

\* the clock values at which SpecVerify applies the verification: around
\* the startup second and around one minute after it
VerifyTimes ==
    {StartTick + a + b * (Minute * TicksPerSecond) : a \in 0..MaxTicks, b \in 0..1}

(***************************************************************************)
(* State after startup.                                                    *)
(***************************************************************************)
\* touched holds what a call has consulted or written so far, among "has",
\* "authIP", "header", "user", "write400", "write407" and "add"
InitHandlers ==
    /\ pc = [p \in Procs |-> "idle"]
    /\ ip = [p \in Procs |-> ""]
    /\ lport = [p \in Procs |-> 0]
    /\ req = [p \in Procs |-> NoRequest]
    /\ verr = [p \in Procs |-> "none"]
    /\ err = [p \in Procs |-> "none"]
    /\ touched = [p \in Procs |-> {}]

\* startup is over: connections are being served
Serving == [phase |-> "serving"]

InitAuthState(config) ==
    /\ ~initAuth(config).fatal
    /\ cfg = config
    /\ required = initAuth(config).required
    /\ user = initAuth(config).user
    /\ allowedClient = initAuth(config).allowedClient
    /\ timeout = initAuth(config).timeout
    /\ authed = EmptyMap
    /\ verified = EmptyMap
    /\ issued = {}
    /\ boot = Serving

Init ==
    /\ \E config \in Configs : InitAuthState(config)
    /\ now = StartTick
    /\ InitHandlers

(***************************************************************************)
(* One request on a connection: the caller and Authenticate, step by step. *)
(***************************************************************************)
(***************************************************************************)
(* What a request claims.                                                  *)
(***************************************************************************)
IsDigest(r) ==
    Len(SplitN2(r.ProxyAuthorization)) = 2
    /\ authMethodOf(SplitN2(r.ProxyAuthorization)[1]) = "digest"

IsBasic(r) ==
    Len(SplitN2(r.ProxyAuthorization)) = 2
    /\ authMethodOf(SplitN2(r.ProxyAuthorization)[1]) = "basic"

\* the key=value map of a Digest request
KeyValues(r) == parseKeyValueList(digestPairs(SplitN2(r.ProxyAuthorization)[2]))

\* the fields of the decoded blob of a Basic request
BasicFields(r) == DecodeString(basicBlob(SplitN2(r.ProxyAuthorization)[2])).val

\* the user name a request claims, "" when it names none
RequestUser(r) ==
    IF IsDigest(r) THEN MapGet(KeyValues(r), "username")
    ELSE IF IsBasic(r) /\ Len(BasicFields(r)) = 2 THEN BasicFields(r)[1]
    ELSE ""

\* whether verification of r reaches the lookup in the credential store
lookupReached(t, r) ==
    LET arr == SplitN2(r.ProxyAuthorization)
        kv == parseKeyValueList(digestPairs(arr[2]))
    IN  /\ Len(arr) = 2
        /\ \/ /\ authMethodOf(arr[1]) = "basic"
              /\ ~DecodeString(basicBlob(arr[2])).err
              /\ Len(DecodeString(basicBlob(arr[2])).val) = 2
           \/ /\ authMethodOf(arr[1]) = "digest"
              /\ DOMAIN kv # {}
              /\ ~ParseInt16(MapGet(kv, "nonce")).err
              /\ ~(t - ParseInt16(MapGet(kv, "nonce")).val * TicksPerSecond
                     > Minute * TicksPerSecond)

\* whether verification of r goes on to the digest key (line 318)
reachesDigest(localPort, users, t, r) ==
    LET arr == SplitN2(r.ProxyAuthorization)
    IN  /\ Len(arr) = 2
        /\ authMethodOf(arr[1]) = "digest"
        /\ authDigestHead(localPort, users, t, arr[2]) = errNil

\* the caller's guard: Authenticate runs only when auth is required
authenticateCalled(isRequired) == isRequired

\* mutant of authenticatePath: the cache is not consulted
authenticatePathNoCache(cached, allowed) == IF allowed THEN "allowed" ELSE "verify"

\* mutant of authenticatePath: the allowlist is not consulted
authenticatePathNoAllow(cached, allowed) == IF cached THEN "cached" ELSE "verify"

\* mutant of authenticatePath: an allowlisted address is served as a cache hit
authenticatePathAllowAsCached(cached, allowed) ==
    IF cached \/ allowed THEN "cached" ELSE "verify"

\* Authenticate, lines 185-191: the cache first, then the allowlist
authenticatePath(cached, allowed) ==
    IF cached THEN "cached" ELSE IF allowed THEN "allowed" ELSE "verify"

\* mutant of afterCheck: every error leads to a new challenge
afterCheckRechallenge(e) == IF e = errNil THEN "return" ELSE "challenge"

\* authUserPasswd, lines 331-337: what follows checkProxyAuthorization
afterCheck(e) ==
    IF e = errNil THEN "return"
    ELSE IF e # errAuthRequired THEN "sendError"
    ELSE "challenge"

\* mutant of challengeResult: the error of the write is dropped
challengeResultIgnoresWrite(written) == errAuthRequired

\* authUserPasswd, lines 353-356: the result of the challenge write
challengeResult(written) == IF written THEN errAuthRequired ELSE errSendAuth

\* mutant of afterAuthUserPasswd: the client is added whatever the error
afterAuthUserPasswdAlways(e) == "add"

\* Authenticate, lines 192-196: the cache insertion follows a nil error only
afterAuthUserPasswd(e) == IF e = errNil THEN "add" ELSE "done"

\* a request arrives on the connection of client address a: the caller's
\* guard, then Authenticate, lines 184-191
AuthenticateFrom(p, a) ==
    /\ pc[p] = "idle"
    /\ ip' = [ip EXCEPT ![p] = a]
    /\ IF ~authenticateCalled(required)
       THEN /\ pc' = [pc EXCEPT ![p] = "done"]
            /\ err' = [err EXCEPT ![p] = errNil]
            /\ touched' = touched
       ELSE LET path == authenticatePath(TimeoutSetHas(authed, timeout, now, a),
                                         authIP(a, allowedClient))
            IN  CASE path = "cached" ->
                       /\ pc' = [pc EXCEPT ![p] = "done"]
                       /\ err' = [err EXCEPT ![p] = errNil]
                       /\ touched' = [touched EXCEPT ![p] = {"has"}]
                  [] path = "allowed" ->
                       /\ pc' = [pc EXCEPT ![p] = "done"]
                       /\ err' = [err EXCEPT ![p] = errNil]
                       /\ touched' = [touched EXCEPT ![p] = {"has", "authIP"}]
                  [] OTHER ->
                       /\ pc' = [pc EXCEPT ![p] = "authUserPasswd"]
                       /\ err' = err
                       /\ touched' = [touched EXCEPT ![p] = {"has", "authIP"}]
    /\ UNCHANGED <<required, user, allowedClient, timeout, authed, now, req,
                   verr, verified, cfg, issued, boot>>

\* Authenticate on a connection whose local port is not read yet
Authenticate(p) ==
    /\ \E a \in ClientIPs : AuthenticateFrom(p, a)
    /\ UNCHANGED lport

\* checkProxyAuthorization has returned e in handler p, having consulted
\* seen; who is the user name of the request
Checked(p, e, seen, who) ==
    /\ verr' = [verr EXCEPT ![p] = e]
    /\ verified' = IF e = errNil
                   THEN [a \in (DOMAIN verified) \cup {ip[p]} |->
                            IF a = ip[p] THEN who ELSE verified[a]]
                   ELSE verified
    /\ CASE afterCheck(e) = "return" ->
              /\ pc' = [pc EXCEPT ![p] = afterAuthUserPasswd(e)]
              /\ err' = [err EXCEPT ![p] = e]
              /\ touched' = [touched EXCEPT ![p] = @ \cup seen]
         [] afterCheck(e) = "sendError" ->
              /\ pc' = [pc EXCEPT ![p] = afterAuthUserPasswd(e)]
              /\ err' = [err EXCEPT ![p] = e]
              /\ touched' = [touched EXCEPT ![p] = @ \cup seen \cup {"write400"}]
         [] OTHER ->
              /\ pc' = [pc EXCEPT ![p] = "challenge"]
              /\ err' = err
              /\ touched' = [touched EXCEPT ![p] = @ \cup seen]

\* authUserPasswd, lines 328-338, with checkProxyAuthorization up to the
\* use of the digest key, on request r of a connection with local port lp;
\* an error other than errAuthRequired sends the 400 page and returns
CheckWith(p, r, lp) ==
    /\ IF r.ProxyAuthorization = <<>>
       THEN /\ pc' = [pc EXCEPT ![p] = "challenge"]
            /\ touched' = [touched EXCEPT ![p] = @ \cup {"header"}]
            /\ UNCHANGED <<verr, verified, err>>
       ELSE IF reachesDigest(lp, user, now, r)
       THEN /\ pc' = [pc EXCEPT ![p] = "initHA1"]
            /\ touched' = [touched EXCEPT ![p] = @ \cup {"header", "user"}]
            /\ UNCHANGED <<verr, verified, err>>
       ELSE Checked(p, checkProxyAuthorization(lp, user, now, r).err,
                    {"header"} \cup (IF lookupReached(now, r) THEN {"user"} ELSE {}),
                    RequestUser(r))
    /\ UNCHANGED <<required, user, allowedClient, timeout, authed, now, ip, cfg, issued, boot>>

\* initHA1, line 57: the test of the digest key
InitHA1Test(p) ==
    /\ pc[p] = "initHA1"
    /\ pc' = [pc EXCEPT ![p] =
                 IF user[digestUser(SplitN2(req[p].ProxyAuthorization)[2])].ha1 = <<>>
                 THEN "writeHA1" ELSE "digest"]
    /\ UNCHANGED <<required, user, allowedClient, timeout, authed, now, ip, lport, req,
                   verr, err, touched, verified, cfg, issued, boot>>

\* initHA1, line 58: the write of the digest key.  The field is a string
\* header of two words and the write is not synchronized: the two words are
\* stored in either order, and when the length is stored first over an empty
\* key the other handlers can read the key before the data pointer is there
InitHA1Write(p) ==
    /\ pc[p] = "writeHA1"
    /\ LET u == digestUser(SplitN2(req[p].ProxyAuthorization)[2])
       IN  \E lengthFirst \in BOOLEAN :
              IF lengthFirst /\ user[u].ha1 \in {<<>>, Torn}
              THEN /\ user' = storeHA1(user, u, Torn)
                   /\ pc' = [pc EXCEPT ![p] = "storeHA1"]
              ELSE /\ user' = storeHA1(user, u, md5sum(<<u, authRealm, user[u].passwd>>))
                   /\ pc' = [pc EXCEPT ![p] = "digest"]
    /\ UNCHANGED <<required, allowedClient, timeout, authed, now, ip, lport, req,
                   verr, err, touched, verified, cfg, issued, boot>>

\* initHA1, line 58: the second word of the digest key is stored
InitHA1Store(p) ==
    /\ pc[p] = "storeHA1"
    /\ LET u == digestUser(SplitN2(req[p].ProxyAuthorization)[2])
       IN  user' = storeHA1(user, u, md5sum(<<u, authRealm, user[u].passwd>>))
    /\ pc' = [pc EXCEPT ![p] = "digest"]
    /\ UNCHANGED <<required, allowedClient, timeout, authed, now, ip, lport, req,
                   verr, err, touched, verified, cfg, issued, boot>>

\* authDigest, lines 319-324: the digest comparison; reading the bytes of a
\* key whose data pointer is missing faults and the handler panics
CalcDigest(p) ==
    /\ pc[p] = "digest"
    /\ LET keyVal == SplitN2(req[p].ProxyAuthorization)[2]
           ha1 == user[digestUser(keyVal)].ha1
       IN  IF ha1 = Torn
           THEN /\ pc' = [pc EXCEPT ![p] = "panic"]
                /\ UNCHANGED <<verr, verified, err, touched>>
           ELSE Checked(p, authDigestTail(ha1, req[p].Method, keyVal), {},
                        digestUser(keyVal))
    /\ UNCHANGED <<required, user, allowedClient, timeout, authed, now, ip, lport, req, cfg, issued, boot>>

\* authUserPasswd, lines 340-356: the 407 challenge with the nonce of the
\* current second; the write may fail
ChallengeWrite(p, written) ==
    /\ pc[p] = "challenge"
    /\ touched' = [touched EXCEPT ![p] = IF written THEN @ \cup {"write407"} ELSE @]
    /\ err' = [err EXCEPT ![p] = challengeResult(written)]
    /\ pc' = [pc EXCEPT ![p] = afterAuthUserPasswd(challengeResult(written))]
    /\ UNCHANGED <<required, user, allowedClient, timeout, authed, now, ip, lport, req,
                   verr, verified, cfg, boot>>

\* the challenge where no history of the nonces is kept: the program keeps
\* none, the nonce leaves with the response
Challenge(p) ==
    /\ \E written \in BOOLEAN : ChallengeWrite(p, written)
    /\ UNCHANGED issued

\* the challenge with the nonce a client receives recorded in issued
ChallengeIssue(p) ==
    \E written \in BOOLEAN :
        /\ ChallengeWrite(p, written)
        /\ issued' = IF written THEN issued \cup {genNonce(now)} ELSE issued

\* Authenticate, lines 193-196: the cache insertion
Add(p) ==
    /\ pc[p] = "add"
    /\ authed' = TimeoutSetAdd(authed, now, ip[p])
    /\ touched' = [touched EXCEPT ![p] = @ \cup {"add"}]
    /\ pc' = [pc EXCEPT ![p] = "done"]
    /\ UNCHANGED <<required, user, allowedClient, timeout, now, ip, lport, req,
                   verr, err, verified, cfg, issued, boot>>

\* the caller has the result; the handler takes the next request
Return(p) ==
    /\ pc[p] = "done"
    /\ pc' = [pc EXCEPT ![p] = "idle"]
    /\ ip' = [ip EXCEPT ![p] = ""]
    /\ lport' = [lport EXCEPT ![p] = 0]
    /\ req' = [req EXCEPT ![p] = NoRequest]
    /\ verr' = [verr EXCEPT ![p] = "none"]
    /\ err' = [err EXCEPT ![p] = "none"]
    /\ touched' = [touched EXCEPT ![p] = {}]
    /\ UNCHANGED <<required, user, allowedClient, timeout, authed, now, verified, cfg, issued, boot>>

\* the clock advances
Tick ==
    /\ \E d \in TickSteps :
          /\ Elapsed(now + d) <= MaxTicks
          /\ now' = now + d
    /\ UNCHANGED <<required, user, allowedClient, timeout, authed, pc, ip, lport, req,
                   verr, err, touched, verified, cfg, issued, boot>>

(***************************************************************************)
(* Spec: concurrent handlers, each serving requests one after another.     *)
(***************************************************************************)
\* the requests clients send in Spec: one for every path of the verification
ClientRequests ==
    LET nonce == FormatHex(StartTime)
        stale == FormatHex(StartTime - Minute - 1)
        good == [kind |-> "computed", pw |-> "secret", m |-> "GET", uri |-> "/"]
        bad == [kind |-> "garbage", pw |-> "", m |-> "", uri |-> ""]
        digest(n, q, sel) ==
            <<W("Digest"), SP,
              DigestList([has |-> TRUE, v |-> n], [has |-> TRUE, v |-> "alice"], q, sel, "/")>>
        auth == [has |-> TRUE, v |-> "auth"]
    IN  {[ProxyAuthorization |-> h, Method |-> "GET", URL |-> "/"] :
            h \in {<<>>, <<W("Basic")>>,
                   <<W("Basic"), SP, B64(<<"alice", "secret">>)>>,
                   <<W("Basic"), SP, B64(<<"bob", "secret">>)>>,
                   <<W("Basic"), SP, B64(<<"alice">>)>>,
                   <<W("Basic"), SP, RAW>>, <<W("NTLM"), SP, RAW>>,
                   <<W("Digest"), SP>>,
                   digest(<<"z", "z">>, auth, good),
                   digest(nonce, auth, good), digest(nonce, auth, bad),
                   digest(stale, auth, good), digest(nonce, Absent(""), good),
                   digest(nonce, auth, [kind |-> "absent", pw |-> "", m |-> "", uri |-> ""])}}

\* the request and the local port are kept in the state only while the
\* verification still reads them
Check(p) ==
    /\ pc[p] = "authUserPasswd"
    /\ \E r \in ClientRequests, lp \in LocalPorts :
          /\ CheckWith(p, r, lp)
          /\ IF reachesDigest(lp, user, now, r)
             THEN /\ req' = [req EXCEPT ![p] = r]
                  /\ lport' = [lport EXCEPT ![p] = lp]
             ELSE UNCHANGED <<req, lport>>

Next ==
    \/ \E p \in Procs :
          \/ Authenticate(p) \/ Check(p)
          \/ InitHA1Test(p) \/ InitHA1Write(p) \/ InitHA1Store(p) \/ CalcDigest(p)
          \/ Challenge(p) \/ Add(p) \/ Return(p)
    \/ Tick

Spec == Init /\ [][Next]_vars

(***************************************************************************)
(* SpecVerify: credential verification applied to every request of         *)
(* Requests, on one connection, at one clock value.                        *)
(***************************************************************************)
VerifyConfigs == {c \in AllConfigs : c.AllowedClient = <<EmptyString>> /\ initAuthRequired(c)}

InitVerify ==
    /\ \E config \in VerifyConfigs : InitAuthState(config)
    /\ now \in VerifyTimes
    /\ pc = [p \in Procs |-> IF p = "h1" THEN "given" ELSE "idle"]
    /\ ip = [p \in Procs |-> IF p = "h1" THEN "11.0.0.0" ELSE ""]
    /\ \E lp \in LocalPorts : lport = [p \in Procs |-> IF p = "h1" THEN lp ELSE 0]
    /\ \E r \in Requests : req = [p \in Procs |-> IF p = "h1" THEN r ELSE NoRequest]
    /\ verr = [p \in Procs |-> "none"]
    /\ err = [p \in Procs |-> "none"]
    /\ touched = [p \in Procs |-> IF p = "h1" THEN {"has", "authIP"} ELSE {}]

CheckGiven(p) ==
    /\ pc[p] = "given"
    /\ CheckWith(p, req[p], lport[p])
    /\ UNCHANGED <<req, lport>>

NextVerify ==
    \E p \in Procs :
        \/ CheckGiven(p)
        \/ InitHA1Test(p) \/ InitHA1Write(p) \/ InitHA1Store(p) \/ CalcDigest(p)

SpecVerify == InitVerify /\ [][NextVerify]_vars

(***************************************************************************)
(* SpecRetry: one client connection after another on one handler; the      *)
(* nonces of the challenges are recorded, and a client answers a challenge *)
(* at once, a minute later or after the cache window.  The clock advances  *)
(* between two calls.                                                      *)
(***************************************************************************)
RetryProcs == {"h1"}
RetryIPs == {"11.0.0.0"}

\* nonces a client makes up at clock value t: the current second and a
\* second in the future
ClientNonces(t) == {FormatHex(t \div TicksPerSecond), FormatHex(StartTime + 2 * Hour)}

\* what a client sends at clock value t when it knows the nonces of seen
RetryRequests(seen, t) ==
    {[ProxyAuthorization |-> h, Method |-> "GET", URL |-> "/"] :
        h \in {<<>>, <<W("Basic"), SP, B64(<<"alice", "secret">>)>>,
                <<W("Basic"), SP, B64(<<"bob", "hunter2">>)>>}
           \cup {<<W("Digest"), SP,
                   DigestList([has |-> TRUE, v |-> n], [has |-> TRUE, v |-> u],
                              [has |-> TRUE, v |-> "auth"], sel, "/")>> :
                     n \in seen \cup ClientNonces(t),
                     u \in Names,
                     sel \in {[kind |-> "garbage", pw |-> "", m |-> "", uri |-> ""]}
                             \cup [kind : {"computed"}, pw : Passwds, m : {"GET"}, uri : {"/"}]}}

\* steps of the clock in SpecRetry: a tick, a minute, the cache window
RetrySteps == {1, Minute * TicksPerSecond, Hour * TicksPerSecond}

\* how many steps of RetrySteps lead from startup to clock value t
ElapsedRetry(t) ==
    LET e == t - StartTick
    IN  (e \div (Hour * TicksPerSecond))
        + ((e % (Hour * TicksPerSecond)) \div (Minute * TicksPerSecond))
        + (e % (Minute * TicksPerSecond))

InitRetry ==
    /\ \E config \in VerifyConfigs : InitAuthState(config)
    /\ now = StartTick
    /\ InitHandlers

\* a request arrives on a connection with local port lp
Arrive(p) ==
    \E a \in RetryIPs, lp \in LocalPorts :
        /\ AuthenticateFrom(p, a)
        /\ lport' = [lport EXCEPT ![p] = lp]

CheckRetry(p) ==
    /\ pc[p] = "authUserPasswd"
    /\ \E r \in RetryRequests(issued, now) :
          /\ CheckWith(p, r, lport[p])
          /\ req' = [req EXCEPT ![p] = r]
    /\ UNCHANGED lport

TickRetry ==
    /\ \A p \in Procs : pc[p] = "idle"
    /\ \E d \in RetrySteps :
          /\ ElapsedRetry(now + d) <= MaxTicks
          /\ now' = now + d
    /\ UNCHANGED <<required, user, allowedClient, timeout, authed, pc, ip, lport, req,
                   verr, err, touched, verified, cfg, issued, boot>>

NextRetry ==
    \/ \E p \in RetryProcs :
          \/ Arrive(p) \/ CheckRetry(p)
          \/ InitHA1Test(p) \/ InitHA1Write(p) \/ InitHA1Store(p) \/ CalcDigest(p)
          \/ ChallengeIssue(p) \/ Add(p) \/ Return(p)
    \/ TickRetry

SpecRetry == InitRetry /\ [][NextRetry]_vars

(***************************************************************************)
(* SpecStartup: initAuth step by step on every configuration of            *)
(* StartupConfigs, then the allowlist matcher on every address of MatchIPs.*)
(***************************************************************************)
UserSpecs ==
    {EmptyString, <<"alice">>, <<"alice", "secret">>, <<"alice", "secret", "">>,
     <<"alice", "secret", "8080">>, <<"alice", "secret", "1">>,
     <<"alice", "secret", "65535">>, <<"alice", "secret", "65536">>,
     <<"alice", "secret", "70000">>, <<"alice", "secret", "0">>,
     <<"alice", "secret", "-1">>, <<"alice", "secret", "x">>,
     <<"alice", "secret", "8080", "x">>, <<"", "secret">>, <<"alice", "">>}

AllowSpecs ==
    {<<EmptyString>>,
     << <<"10.0.0.0", "8">> >>, << <<"192.168.1.5">> >>,
     << <<"10.0.0.0", "8">>, <<"192.168.1.5">> >>,
     << <<"10.1.2.3", "8">> >>, << <<"10.1.2.3", "32">> >>,
     << <<"192.168.1.5", "24">> >>, << <<"11.0.0.0", "0">> >>,
     << <<"10.0.0.0", "33">> >>, << <<"10.0.0.0", "8", "8">> >>,
     << <<"10.0.0.0", "x">> >>, << <<"localhost">> >>,
     << <<"192.168.1.5">>, <<"">> >>}

StartupConfigs ==
    {c \in [UserPasswd : UserSpecs,
            UserPasswdFile : {"", "passwd", "twice", "more", "bad"},
            AllowedClient : AllowSpecs,
            AuthTimeout : {1}] : initAuthRequired(c)}

MatchIPs == {"10.1.2.3", "11.0.0.0", "192.168.1.5", "192.168.1.6"}

\* startup after a step: the phase, the next line of the credential file,
\* whether the step was a call of addUserPasswd with its argument spec on
\* the store before, whether the process exited, and the last address given
\* to the matcher with the answer
Booting(phase, line, applied, spec, before, fatal, client, matched) ==
    [phase |-> phase, line |-> line, applied |-> applied, spec |-> spec,
     before |-> before, fatal |-> fatal, client |-> client, matched |-> matched]

\* initAuth, lines 154-162: auth is required and the store is empty
InitStartup ==
    /\ cfg \in StartupConfigs
    /\ required = TRUE
    /\ user = EmptyMap
    /\ allowedClient = <<>>
    /\ timeout = 0
    /\ authed = EmptyMap
    /\ verified = EmptyMap
    /\ issued = {}
    /\ now = StartTick
    /\ boot = Booting("addUserPasswd", 1, FALSE, EmptyString, EmptyMap, FALSE, "", FALSE)
    /\ InitHandlers

\* one call of addUserPasswd during startup, on val
AddUser(val, nextPhase, nextLine) ==
    LET r == addUserPasswd(user, val)
    IN  /\ user' = r.user
        /\ boot' = Booting(IF r.fatal THEN "exited" ELSE nextPhase, nextLine, TRUE, val,
                           user, r.fatal, "", FALSE)
        /\ UNCHANGED <<required, allowedClient, timeout, authed, now, pc, ip, lport, req,
                       verr, err, touched, verified, cfg, issued>>

\* initAuth, line 164
AddUserPasswd ==
    /\ boot.phase = "addUserPasswd"
    /\ AddUser(cfg.UserPasswd, "loadUserPasswdFile", 1)

\* initAuth, line 165: one line of the credential file
LoadLine ==
    /\ boot.phase = "loadUserPasswdFile"
    /\ cfg.UserPasswdFile # ""
    /\ boot.line <= Len(FileLines(cfg.UserPasswdFile))
    /\ AddUser(FileLines(cfg.UserPasswdFile)[boot.line], "loadUserPasswdFile", boot.line + 1)

\* initAuth, lines 166-179: the allowlist and the cache
ParseAllowed ==
    /\ boot.phase = "loadUserPasswdFile"
    /\ cfg.UserPasswdFile = "" \/ boot.line > Len(FileLines(cfg.UserPasswdFile))
    /\ LET r == parseAllowedClient(cfg.AllowedClient)
       IN  /\ allowedClient' = IF r.fatal THEN allowedClient ELSE r.allowedClient
           /\ timeout' = IF r.fatal THEN timeout ELSE cfg.AuthTimeout * Hour
           /\ boot' = Booting(IF r.fatal THEN "exited" ELSE "started", boot.line, FALSE,
                              EmptyString, user, r.fatal, "", FALSE)
    /\ UNCHANGED <<required, user, authed, now, pc, ip, lport, req, verr, err, touched,
                   verified, cfg, issued>>

\* authIP on the address of a client
MatchIP ==
    /\ boot.phase = "started"
    /\ \E a \in MatchIPs :
          boot' = [boot EXCEPT !.client = a, !.matched = authIP(a, allowedClient)]
    /\ UNCHANGED <<required, user, allowedClient, timeout, authed, now, pc, ip, lport, req,
                   verr, err, touched, verified, cfg, issued>>

NextStartup == AddUserPasswd \/ LoadLine \/ ParseAllowed \/ MatchIP

SpecStartup == InitStartup /\ [][NextStartup]_vars

(***************************************************************************)
(* Properties.                                                             *)
(***************************************************************************)
Done(p) == pc[p] = "done"

\* the call of handler p found no Proxy-Authorization header
NoHeader(p) == "header" \in touched[p] /\ verr[p] = "none" /\ pc[p] \in {"challenge", "done"}

\* C1: an address is in the cache only if a verification from it succeeded;
\* a successful verification adds it, and a call that ends in an error adds
\* nothing.
C1_CacheOnlyAfterVerification ==
    /\ DOMAIN authed \subseteq DOMAIN verified
    /\ \A p \in Procs :
          /\ "add" \in touched[p] => verr[p] = errNil /\ ip[p] \in DOMAIN authed
          /\ Done(p) /\ verr[p] = errNil => "add" \in touched[p] /\ err[p] = errNil
          /\ Done(p) /\ err[p] # errNil => "add" \notin touched[p]

C1_Witness ==
    \E p, q \in Procs :
        /\ p # q
        /\ Done(p) /\ "add" \in touched[p] /\ ip[p] \in DOMAIN authed
        /\ Done(q) /\ err[q] = errAuthRequired /\ ip[q] \notin DOMAIN authed

\* C4: Authenticate returns errAuthRequired exactly when the 407 challenge
\* was written in this call; a missing header and a verification that yields
\* errAuthRequired lead to the challenge, and a failed write returns the
\* write error.
C4_AuthRequiredIffChallengeWritten ==
    \A p \in Procs :
        Done(p) =>
            /\ err[p] = errAuthRequired <=> "write407" \in touched[p]
            /\ (verr[p] = errAuthRequired \/ NoHeader(p)) =>
                   \/ err[p] = errAuthRequired /\ "write407" \in touched[p]
                   \/ err[p] = errSendAuth /\ "write407" \notin touched[p]
            /\ err[p] = errSendAuth => (verr[p] = errAuthRequired \/ NoHeader(p))

C4_Witness ==
    \E p, q \in Procs :
        /\ Done(p) /\ verr[p] = errAuthRequired /\ err[p] = errSendAuth
        /\ Done(q) /\ NoHeader(q) /\ err[q] = errAuthRequired

\* C5: an error of the header parsing other than errAuthRequired is returned
\* to the caller as it is, with the 400 page and no challenge written and
\* with no cache insertion.
C5_ParseErrorIsBadRequest ==
    \A p \in Procs :
        verr[p] \in BadRequestErrors =>
            /\ Done(p)
            /\ err[p] = verr[p]
            /\ "write400" \in touched[p]
            /\ "write407" \notin touched[p]
            /\ "add" \notin touched[p]

C5_Witness ==
    /\ \A e \in {errMalformedHeader, errQop} : \E p \in Procs : Done(p) /\ err[p] = e
    /\ authed = EmptyMap

\* whether the cache entry of address a is within its window at clock value t
Unexpired(a, t) == a \in DOMAIN authed /\ t - authed[a] <= timeout * TicksPerSecond

\* a call of handler p that missed the cache, for an address not on the
\* allowlist whose entry has expired, and that did not verify
ExpiredAndNotVerified(p) ==
    /\ Done(p)
    /\ "authIP" \in touched[p]
    /\ ip[p] \in DOMAIN authed /\ ~Unexpired(ip[p], now)
    /\ ~authIP(ip[p], allowedClient)
    /\ verr[p] # errNil

\* C8 as stated, second half: once the entry of its address has expired, a
\* call without valid credentials is challenged with a 407.
C8_ExpiredAlwaysChallenged ==
    \A p \in Procs : ExpiredAndNotVerified(p) => "write407" \in touched[p]

\* C8, amended: while the entry of its address is within the window a call
\* succeeds from the cache alone; once the entry has expired the call runs
\* the verification again and is not authorized without valid credentials:
\* it gets the 407 challenge unless the header is malformed (400 page) or the
\* challenge write fails.
C8_CacheWindow ==
    [][\A p \in Procs :
          /\ (pc[p] = "idle" /\ pc'[p] # "idle" /\ required /\ Unexpired(ip'[p], now)) =>
                 pc'[p] = "done" /\ err'[p] = errNil /\ touched'[p] = {"has"}
          /\ ExpiredAndNotVerified(p)' =>
                 /\ err'[p] # errNil
                 /\ "header" \in touched'[p]
                 /\ \/ "write407" \in touched'[p] /\ err'[p] = errAuthRequired
                    \/ "write400" \in touched'[p] /\ err'[p] \in BadRequestErrors
                    \/ err'[p] = errSendAuth]_vars

C8_Witness ==
    \E p, q \in Procs :
        /\ Done(p) /\ touched[p] = {"has"} /\ required
        /\ authed[ip[p]] < now
        /\ ExpiredAndNotVerified(q) /\ "write407" \in touched[q]

\* C9: with auth required, a call from an address on the allowlist succeeds
\* and neither reads the request nor writes to the connection.
C9_AllowlistedSucceeds ==
    \A p \in Procs :
        (pc[p] # "idle" /\ required /\ authIP(ip[p], allowedClient)) =>
            /\ Done(p)
            /\ err[p] = errNil
            /\ touched[p] \subseteq {"has", "authIP"}

C9_Witness ==
    \E p \in Procs :
        /\ Done(p) /\ required /\ authIP(ip[p], allowedClient)
        /\ "authIP" \in touched[p] /\ err[p] = errNil

NothingConfigured ==
    /\ cfg.UserPasswd = EmptyString
    /\ cfg.UserPasswdFile = ""
    /\ cfg.AllowedClient = <<EmptyString>>

StaleNonce(r, t) ==
    /\ ~ParseInt16(MapGet(KeyValues(r), "nonce")).err
    /\ t - ParseInt16(MapGet(KeyValues(r), "nonce")).val * TicksPerSecond
           > Minute * TicksPerSecond

\* the verification of handler p has returned
Verified(p) == pc[p] \in {"add", "challenge", "done"} /\ verr[p] # "none"

\* what the client sees of a verification result
Visible(e) ==
    IF e = errNil THEN "authorized" ELSE IF e = errAuthRequired THEN "407" ELSE "400"

\* C2 as stated: a Digest request is accepted only on a response computed
\* with HA2 = MD5(method ":" uri) over the method and the uri of the request
\* line.
C2_DigestOverRequestURI ==
    \A p \in Procs :
        (pc[p] = "add" /\ IsDigest(req[p])) =>
            LET kv == KeyValues(req[p])
                u == MapGet(kv, "username")
            IN  MapGet(kv, "response") =
                    ClientResponse(u, user[u].passwd, MapGet(kv, "nonce"),
                                   req[p].Method, req[p].URL)

\* the stores that differ from users only in whether user name u exists
OtherStores(users, u) ==
    IF u \in DOMAIN users
    THEN {[n \in (DOMAIN users) \ {u} |-> users[n]]}
    ELSE {[n \in (DOMAIN users) \cup {u} |-> IF n = u THEN au ELSE users[n]] :
             au \in [passwd : Passwds, ha1 : {<<>>}, port : {0} \cup LocalPorts]}

\* C3 as stated: for a request that is not authorized, the outcome the
\* client sees (407 or 400) is the same under any two stores that differ only
\* in whether the user name of the request exists.
C3_UnknownUserIndistinguishable ==
    \A p \in Procs :
        (Verified(p) /\ verr[p] # errNil /\ RequestUser(req[p]) # "") =>
            \A other \in OtherStores(user, RequestUser(req[p])) :
                LET e2 == checkProxyAuthorization(lport[p], other, now, req[p]).err
                IN  e2 # errNil => Visible(verr[p]) = Visible(e2)

\* C6: a Digest request whose nonce is a number older than a minute gets
\* errAuthRequired, whatever its other fields are, and is never taken on to
\* the digest comparison.
C6_StaleNonceRejected ==
    \A p \in Procs :
        (pc[p] \notin {"idle", "given"} /\ IsDigest(req[p]) /\ StaleNonce(req[p], now)) =>
            pc[p] = "challenge" /\ verr[p] = errAuthRequired

C6_Witness ==
    \E p \in Procs :
        LET kv == KeyValues(req[p])
            u == MapGet(kv, "username")
        IN  /\ pc[p] = "challenge" /\ verr[p] = errAuthRequired
            /\ IsDigest(req[p]) /\ StaleNonce(req[p], now)
            /\ u \in DOMAIN user
            /\ user[u].port \in {0, lport[p]}
            /\ MapGet(kv, "qop") = "auth"
            /\ MapGet(kv, "response") =
                   ClientResponse(u, user[u].passwd, MapGet(kv, "nonce"),
                                  req[p].Method, MapGet(kv, "uri"))

\* the verification of handler p looked its user up and found it
Matched(p) ==
    /\ Verified(p)
    /\ lookupReached(now, req[p])
    /\ RequestUser(req[p]) \in DOMAIN user

\* C7: when the matched user's port is nonzero and differs from the local
\* port the result is errAuthRequired; when it is 0 or equals the local port
\* the port check passes and the result is the one an unrestricted user gets.
C7_PortRestriction ==
    \A p \in Procs :
        Matched(p) =>
            LET u == RequestUser(req[p])
            IN  IF user[u].port # 0 /\ user[u].port # lport[p]
                THEN verr[p] = errAuthRequired
                ELSE /\ authPort(lport[p], user[u]) = errNil
                     /\ verr[p] = checkProxyAuthorization(
                                      lport[p], [user EXCEPT ![u].port = 0], now, req[p]).err

C7_Witness ==
    \E p \in Procs :
        /\ Matched(p) /\ IsBasic(req[p])
        /\ user[RequestUser(req[p])].passwd = BasicFields(req[p])[2]
        /\ user[RequestUser(req[p])].port = 8080 /\ lport[p] = 3128
        /\ verr[p] = errAuthRequired /\ pc[p] = "challenge"

(***************************************************************************)
(* Properties of the orchestration and of the shared state, under Spec.    *)
(***************************************************************************)
\* a call of handler p, with auth required, from an address on the allowlist
Allowlisted(p) == pc[p] # "idle" /\ required /\ authIP(ip[p], allowedClient)

HA1(u) == md5sum(<<u, authRealm, user[u].passwd>>)

\* handler p is about to read the digest key of the user of its request
\* (the test of line 57 or the argument of line 319)
ReadsHA1(p) == pc[p] \in {"initHA1", "digest"}

\* C14 as stated: under any interleaving of Digest verifications, a read of
\* a user's digest key observes the empty value or MD5(username:cow
\* proxy:password), never a partially written value.
C14_DigestKeyNeverPartial ==
    \A p \in Procs :
        ReadsHA1(p) =>
            LET u == digestUser(SplitN2(req[p].ProxyAuthorization)[2])
            IN  user[u].ha1 \in {<<>>, HA1(u)}

\* C18: no step of an Authenticate call changes the set of user names, a
\* password, a restricted port, the allowlist, the required flag or the cache
\* window; only the cache and the digest keys change.
C18_StoreAndAllowlistReadOnly ==
    [][/\ DOMAIN user' = DOMAIN user
       /\ \A u \in DOMAIN user :
             user'[u].passwd = user[u].passwd /\ user'[u].port = user[u].port
       /\ allowedClient' = allowedClient
       /\ required' = required
       /\ timeout' = timeout]_vars

C18_Witness ==
    /\ \E u \in DOMAIN user : user[u].ha1 = HA1(u) /\ user[u].port # 0
    /\ authed # EmptyMap
    /\ \E p \in Procs : Done(p) /\ "write400" \in touched[p]
    /\ allowedClient # <<>>

(***************************************************************************)
(* Properties of the digest comparison, under SpecVerify.                  *)
(***************************************************************************)
\* the Digest request of handler p passes every test before the digest
\* comparison: a fresh nonce that is a number, a known user on a permitted
\* port, qop "auth" and a response field
ComparesDigest(p) ==
    LET kv == KeyValues(req[p])
        u == MapGet(kv, "username")
    IN  /\ IsDigest(req[p])
        /\ ~ParseInt16(MapGet(kv, "nonce")).err
        /\ ~StaleNonce(req[p], now)
        /\ u \in DOMAIN user
        /\ user[u].port \in {0, lport[p]}
        /\ MapGet(kv, "qop") = "auth"
        /\ "response" \in DOMAIN kv

\* MD5(HA1:nonce:nc:cnonce:auth:HA2) for the request of handler p, with HA1
\* = MD5(username:cow proxy:password) and HA2 over the method of the request
\* and the uri field of its header
ExpectedResponse(p) ==
    LET kv == KeyValues(req[p])
        u == MapGet(kv, "username")
    IN  <<"md5", << <<"md5", <<u, "cow proxy", user[u].passwd>> >>, kv["nonce"], kv["nc"],
                    kv["cnonce"], "auth", <<"md5", <<req[p].Method, kv["uri"]>> >> >> >>

\* C13: a Digest request that reaches the digest comparison is accepted if
\* and only if its response equals MD5(HA1:nonce:nc:cnonce:auth:HA2); with
\* any other response the result is errAuthRequired.
C13_AcceptsExactlyTheDigest ==
    \A p \in Procs :
        (Verified(p) /\ ComparesDigest(p)) =>
            IF KeyValues(req[p])["response"] = ExpectedResponse(p)
            THEN verr[p] = errNil /\ pc[p] = "add"
            ELSE verr[p] = errAuthRequired /\ pc[p] = "challenge"

C13_Witness ==
    \E p \in Procs :
        /\ Verified(p) /\ ComparesDigest(p)
        /\ KeyValues(req[p])["response"] = ExpectedResponse(p)
        /\ user[MapGet(KeyValues(req[p]), "username")].port = lport[p]
        /\ req[p].Method = "CONNECT"
        /\ pc[p] = "add"

(***************************************************************************)
(* Properties of the challenge and the retry, under SpecRetry.             *)
(***************************************************************************)
\* the nonce field of the request of handler p
RequestNonce(p) == MapGet(KeyValues(req[p]), "nonce")

\* C12 as stated: a Digest verification succeeds only for a nonce that was
\* written in an earlier 407 challenge of this proxy.
C12_OnlyIssuedNonceAccepted ==
    \A p \in Procs :
        (pc[p] \in {"add", "done"} /\ verr[p] = errNil /\ IsDigest(req[p])) =>
            RequestNonce(p) \in issued

\* the call of handler p is a retry that answers a challenge: a Digest
\* request with a nonce of an earlier challenge, checked at most a minute
\* after the second the nonce encodes, from a known user on a permitted port,
\* with qop "auth" and the response the digest computation yields
AnswersChallenge(p) ==
    /\ pc[p] \notin {"idle", "authUserPasswd"}
    /\ "header" \in touched[p]
    /\ ComparesDigest(p)
    /\ RequestNonce(p) \in issued
    /\ now - ParseInt16(RequestNonce(p)).val * TicksPerSecond <= Minute * TicksPerSecond
    /\ KeyValues(req[p])["response"] = ExpectedResponse(p)

\* C19: every nonce written in a challenge is the lowercase hexadecimal
\* form of the Unix second of the challenge and parses back to it, and a
\* retry that answers the challenge within a minute is accepted: the
\* verification returns nil, Authenticate returns nil and the client address
\* is added to the cache.
C19_ChallengeRetryRoundTrip ==
    /\ \A n \in issued :
          /\ ~ParseInt16(n).err
          /\ FormatHex(ParseInt16(n).val) = n
          /\ StartTime <= ParseInt16(n).val
          /\ ParseInt16(n).val * TicksPerSecond <= now
          /\ \A i \in 1..Len(n) : \E j \in 1..16 : HexDigits[j] = n[i]
    /\ \A p \in Procs :
          AnswersChallenge(p) =>
              /\ pc[p] \in {"initHA1", "writeHA1", "storeHA1", "digest", "add", "done"}
              /\ pc[p] \in {"add", "done"} => verr[p] = errNil
              /\ Done(p) => /\ err[p] = errNil
                            /\ "add" \in touched[p]
                            /\ ip[p] \in DOMAIN authed

C19_Witness ==
    \E p \in Procs :
        /\ AnswersChallenge(p) /\ Done(p) /\ "add" \in touched[p]
        /\ now - ParseInt16(RequestNonce(p)).val * TicksPerSecond = Minute * TicksPerSecond
        /\ user[MapGet(KeyValues(req[p]), "username")].port = lport[p]

\* C20: the port restriction is tested in the credential verification only
\* (a verification succeeds only on a port its user is permitted), and the
\* cache is keyed by the client address alone: while the entry of its address
\* is within the window, a call succeeds from the cache on whatever local
\* port it arrives, and neither the request nor the store is read.
C20_CacheHitOnAnyPort ==
    \A p \in Procs :
        /\ (pc[p] # "idle" /\ verr[p] = errNil) =>
               user[RequestUser(req[p])].port \in {0, lport[p]}
        /\ (pc[p] # "idle" /\ "add" \notin touched[p] /\ Unexpired(ip[p], now)) =>
               /\ Done(p) /\ err[p] = errNil
               /\ touched[p] = {"has"}
               /\ req[p] = NoRequest
               /\ ip[p] \in DOMAIN verified
               /\ verified[ip[p]] \in DOMAIN user

C20_Witness ==
    \E p \in Procs :
        /\ Done(p) /\ err[p] = errNil /\ touched[p] = {"has"}
        /\ user[verified[ip[p]]].port = 8080
        /\ lport[p] = 3128
        /\ authed[ip[p]] < now

(***************************************************************************)
(* Properties of the startup and of the allowlist matcher, under           *)
(* SpecStartup.                                                            *)
(***************************************************************************)
RECURSIVE BitAnd(_, _)
\* bitwise and of two natural numbers
BitAnd(a, b) ==
    IF a = 0 \/ b = 0 THEN 0
    ELSE 2 * BitAnd(a \div 2, b \div 2) + (IF a % 2 = 1 /\ b % 2 = 1 THEN 1 ELSE 0)

\* addr & mask, byte by byte
AndIP(addr, mask) == [i \in 1..4 |-> BitAnd(addr[i], mask[i])]

\* the allowlist is configured and the matcher has answered for an address
Matching == boot.phase = "started" /\ boot.client # ""

\* C15: the matcher answers true exactly when some stored rule has
\* (clientIP & mask) = baseIP; every stored rule has baseIP = baseIP & mask;
\* an entry without a prefix length is stored with the mask of /32 and its
\* own address; 10.0.0.0/8 matches 10.1.2.3 and not 11.0.0.0, and
\* 192.168.1.5 matches that host only.
C15_AllowlistMatcher ==
    boot.phase = "started" =>
        /\ \A i \in 1..Len(allowedClient) :
              /\ allowedClient[i].ip = AndIP(allowedClient[i].ip, allowedClient[i].mask)
              /\ Len(cfg.AllowedClient[i]) = 1 =>
                     /\ allowedClient[i].mask = <<255, 255, 255, 255>>
                     /\ allowedClient[i].ip = ParseIP(cfg.AllowedClient[i][1])
        /\ Matching =>
              /\ boot.matched <=>
                     \E i \in 1..Len(allowedClient) :
                         AndIP(ParseIP(boot.client), allowedClient[i].mask)
                             = allowedClient[i].ip
              /\ cfg.AllowedClient = << <<"10.0.0.0", "8">> >> =>
                     /\ boot.client = "10.1.2.3" => boot.matched
                     /\ boot.client = "11.0.0.0" => ~boot.matched
              /\ cfg.AllowedClient = << <<"192.168.1.5">> >> =>
                     (boot.matched <=> boot.client = "192.168.1.5")

C15_Witness ==
    /\ Matching
    /\ Len(allowedClient) = 2
    /\ boot.client = "192.168.1.5" /\ boot.matched
    /\ allowedClient[1].mask = <<255, 0, 0, 0>>

\* a credential spec that is not username:password[:port]: 0 or more than 2
\* colons, an empty user name or password, or a port that is no number or
\* outside 1..65535
Malformed(spec) ==
    \/ Len(spec) \notin {2, 3}
    \/ spec[1] = "" \/ spec[2] = ""
    \/ /\ Len(spec) = 3 /\ spec[3] # ""
       /\ Atoi(spec[3]).err \/ Atoi(spec[3]).val \notin 1..65535

\* the last step called addUserPasswd on a spec that is not empty
AddUserCalled == boot.applied /\ boot.spec # EmptyString

C17_AddThenLookup ==
    (AddUserCalled /\ ~Malformed(boot.spec) /\ boot.spec[1] \notin DOMAIN boot.before) =>
        /\ ~boot.fatal
        /\ DOMAIN user = (DOMAIN boot.before) \cup {boot.spec[1]}
        /\ user[boot.spec[1]] =
               [passwd |-> boot.spec[2], ha1 |-> <<>>,
                port |-> IF Len(boot.spec) = 3 /\ boot.spec[3] # ""
                         THEN Atoi(boot.spec[3]).val ELSE 0]
        /\ \A u \in DOMAIN boot.before : user[u] = boot.before[u]

C17_Witness ==
    /\ AddUserCalled /\ ~boot.fatal
    /\ Len(boot.spec) = 3 /\ boot.spec[3] = ""
    /\ user[boot.spec[1]].port = 0
    /\ \E u \in DOMAIN boot.before : user[u].passwd = boot.spec[2]

====
